---- MODULE Spec2Model ----
(***************************************************************************)
(* Model of python-runnables/graph-macro/runnable.py: the macro that       *)
(* synchronises the members of Azure AD groups with the DSS accounts of    *)
(* type LOCAL_NO_AUTH.  One MyRunnable instance is constructed per run;    *)
(* run() goes through four phases (validate, query Graph, aggregate,       *)
(* apply) inside one try/except/finally.                                   *)
(*                                                                         *)
(* Strings that the code takes apart (email addresses, logins) are         *)
(* sequences of one-character strings; the other strings are atomic.       *)
(* Data frames are sequences of records, one record per row.  The "date"   *)
(* and "user" columns of the log are left out: no decision reads them.     *)
(***************************************************************************)
EXTENDS Integers, Sequences, FiniteSets, TLC

VARIABLES
    groups_df,         \* self.groups_df: [columns, rows], the group mapping dataset
    graph,             \* Azure AD as Graph answers: [auth_ok, groups]
    roster,            \* the DSS accounts: a set of account records, one per login
    roster_start,      \* history: the accounts when the current instance was constructed
    config,            \* self.config of the current instance
    pc,                \* position of the current instance
    log_df,            \* self.log_df
    local_groups,      \* run(): local_groups
    group_idx,         \* run(): index of the row of the phase-2 loop
    group_members_df,  \* run(): group_members_df
    user_comparison,   \* run(): user_comparison
    row_idx,           \* run(): index of the row of the phase-4 loop
    decisions,         \* history: what run() decided for each row processed
    api_calls,         \* history: mutating calls made on the DSS client
    fatal,             \* history: message of the exception that ended the instance
    result,            \* what the caller of the instance received
    run_no,            \* number of instances constructed so far
    prev_run,          \* history: summary of the preceding instance
    license_list,      \* SpecLicense: the argument of get_license
    license_result     \* SpecLicense: what get_license returned

vars == <<groups_df, graph, roster, roster_start, config, pc, log_df, local_groups, group_idx,
          group_members_df, user_comparison, row_idx, decisions, api_calls,
          fatal, result, run_no, prev_run, license_list, license_result>>

(***************************************************************************)
(* Bounds                                                                  *)
(***************************************************************************)
\* Number of MyRunnable instances constructed (and run) in succession.
MaxRuns == 2
\* Longest license list given to get_license in SpecLicense.
MaxLicenseList == 3

(***************************************************************************)
(* Values                                                                  *)
(***************************************************************************)
possible_licenses == <<"DATA_SCIENTIST", "DATA_ANALYST", "READER", "EXPLORER", "NONE">>
mandatory_columns == <<"dss_name", "aad_name", "license">>

NaN    == "NaN"       \* a cell pandas left empty in an outer merge
None   == "None"      \* Python's None

ToSet(s) == {s[i] : i \in DOMAIN s}

Last(s) == s[Len(s)]

\* str < str for the characters that occur (ASCII order).
Alphabet == <<"@", "_", "a", "b", "x", "y">>
CharRank(c) == CHOOSE i \in DOMAIN Alphabet : Alphabet[i] = c

RECURSIVE LexLess(_, _)
LexLess(s, t) ==
    IF t = <<>> THEN FALSE
    ELSE IF s = <<>> THEN TRUE
    ELSE IF CharRank(Head(s)) # CharRank(Head(t))
         THEN CharRank(Head(s)) < CharRank(Head(t))
         ELSE LexLess(Tail(s), Tail(t))

\* str < str for the atomic strings that are sorted: group names, display names.
AtomOrder == <<"Ann", "Ann Smith", "Bob", "contractors", "eng", "ghost", "ops">>
AtomRank(a) == CHOOSE i \in DOMAIN AtomOrder : AtomOrder[i] = a

\* A set as a list in sorted order, for atoms and for character strings.
RECURSIVE SortedAtoms(_)
SortedAtoms(S) ==
    IF S = {} THEN <<>>
    ELSE LET m == CHOOSE x \in S : \A y \in S : AtomRank(x) <= AtomRank(y)
         IN  <<m>> \o SortedAtoms(S \ {m})

RECURSIVE SortedStrings(_)
SortedStrings(S) ==
    IF S = {} THEN <<>>
    ELSE LET m == CHOOSE x \in S : \A y \in S \ {x} : LexLess(x, y)
         IN  <<m>> \o SortedStrings(S \ {m})

\* Series.unique(): the values in order of first appearance.
RECURSIVE unique(_)
unique(s) ==
    IF s = <<>> THEN <<>>
    ELSE LET front == unique(SubSeq(s, 1, Len(s) - 1))
         IN  IF Last(s) \in ToSet(front) THEN front ELSE Append(front, Last(s))

(***************************************************************************)
(* Basic methods for translating                                           *)
(***************************************************************************)
\* get_user_id: email.replace("@", "_")
get_user_id(email) ==
    [i \in DOMAIN email |-> IF email[i] = "@" THEN "_" ELSE email[i]]

\* list_diff: list(set(list1) - set(list2)).  The order of the list is that of
\* a Python set and no caller reads it, so the result is kept as a set.
list_diff(list1, list2) == ToSet(list1) \ ToSet(list2)

\* get_license: the loop over possible_licenses from position i on.
RECURSIVE license_from(_, _)
license_from(i, list) ==
    IF i > Len(possible_licenses) THEN "NONE"
    ELSE IF possible_licenses[i] \in ToSet(list) THEN possible_licenses[i]
    ELSE license_from(i + 1, list)

\* Mutant: the first license of the list that is recognised, whatever its potency.
RECURSIVE first_listed_license(_)
first_listed_license(list) ==
    IF list = <<>> THEN "NONE"
    ELSE IF Head(list) \in ToSet(possible_licenses) THEN Head(list)
    ELSE first_listed_license(Tail(list))

get_license(list) == license_from(1, list)

(***************************************************************************)
(* Logging                                                                 *)
(***************************************************************************)
\* One row of log_df.  message names the f-string of the code, user the
\* account or group it is about, detail what else the f-string interpolates.
LogEntry(log_type, message, user, detail) ==
    [type |-> log_type, message |-> message, user |-> user, detail |-> detail]

\* add_log: log_df.append(new_log)
add_log(log, entry) == Append(log, entry)

(***************************************************************************)
(* Input handling and validation                                           *)
(***************************************************************************)
credentials_labels == {"graph_tenant_id", "graph_app_id", "graph_app_secret",
                       "graph_app_cert", "graph_app_cert_thumb",
                       "graph_user", "graph_user_pwd"}

get_required_credentials(auth_method) ==
    {"graph_tenant_id", "graph_app_id"} \cup
    CASE auth_method = "auth_app_token" -> {"graph_app_secret"}
      [] auth_method = "auth_app_cert"  -> {"graph_app_cert", "graph_app_cert_thumb"}
      [] auth_method = "auth_user_pwd"  -> {"graph_user", "graph_user_pwd"}
      [] OTHER -> {}

\* get_credentials: the labels of the required credentials that are absent or
\* empty in the chosen source; a KeyError is raised when there is any.
missing_credentials(auth_method, provided) ==
    get_required_credentials(auth_method) \ provided

\* Mutant: validate_groups_df accepts every dataset.
validate_groups_df_skipped(df) == None

\* validate_groups_df: the message of the exception it raises, or None.
validate_groups_df(df) ==
    IF df.columns # mandatory_columns
    THEN "The groups dataset is not correctly configured."
    ELSE IF list_diff([i \in DOMAIN df.rows |-> df.rows[i].license],
                      possible_licenses) # {}
    THEN "Invalid license types were found in the groups configuration"
    ELSE None

(***************************************************************************)
(* The Graph API                                                           *)
(***************************************************************************)
\* query_group: the Graph id of the group (its name stands for it), or None
\* with a WARNING when Graph returns no value or the call raises.
query_group(group_name_aad) ==
    LET g == graph.groups[group_name_aad] IN
    CASE g.status = "notfound" ->
           [group_id |-> None,
            log |-> <<LogEntry("WARNING", "No return value from Graph for group",
                               group_name_aad, "")>>]
      [] g.status = "lookup_error" ->
           [group_id |-> None,
            log |-> <<LogEntry("WARNING", "Error calling Graph API for group",
                               group_name_aad, "HTTPError")>>]
      [] OTHER -> [group_id |-> group_name_aad, log |-> <<>>]

\* The member rows of one group as query_members builds them: displayName and
\* email from Graph (in Graph's order, here by email), the DSS group name, and
\* the login made from the email.
member_rows(members, group_name_dss) ==
    LET emails == SortedStrings({m.email : m \in members})
        who(e) == CHOOSE m \in members : m.email = e
    IN  [i \in DOMAIN emails |->
            [displayName |-> who(emails[i]).displayName,
             email       |-> emails[i],
             groups      |-> group_name_dss,
             login       |-> get_user_id(emails[i])]]

\* query_members: the member rows, or None (raised, with no rows) and a WARNING
\* when anything in the try block raises.  A group without members raises
\* there too: the empty frame has no column to rename (Length mismatch).
query_members(group_id, group_name_dss) ==
    LET g == graph.groups[group_id] IN
    CASE g.status = "members_error" ->
           [raised |-> TRUE, members |-> <<>>,
            log |-> <<LogEntry("WARNING", "members cannot be retrieved from AAD",
                               group_name_dss, "HTTPError")>>]
      [] g.members = {} ->
           [raised |-> TRUE, members |-> <<>>,
            log |-> <<LogEntry("WARNING", "members cannot be retrieved from AAD",
                               group_name_dss, "Length mismatch")>>]
      [] OTHER -> [raised |-> FALSE,
                   members |-> member_rows(g.members, group_name_dss),
                   log |-> <<>>]

(***************************************************************************)
(* Phase 3: the aggregation                                                *)
(***************************************************************************)
\* Order of sort_values(by=["login", "groups"]).
MemberLess(r1, r2) ==
    \/ LexLess(r1.login, r2.login)
    \/ r1.login = r2.login /\ AtomRank(r1.groups) < AtomRank(r2.groups)

RECURSIVE insert_sorted(_, _)
insert_sorted(sorted, r) ==
    IF sorted = <<>> THEN <<r>>
    ELSE IF MemberLess(r, Head(sorted)) THEN <<r>> \o sorted
    ELSE <<Head(sorted)>> \o insert_sorted(Tail(sorted), r)

RECURSIVE sort_values(_)
sort_values(df) ==
    IF df = <<>> THEN <<>>
    ELSE insert_sorted(sort_values(SubSeq(df, 1, Len(df) - 1)), Last(df))

\* license_lookup: groups_df.iloc[:, [0, 2]]
license_lookup(df) ==
    [i \in DOMAIN df.rows |->
        [dss_name |-> df.rows[i].dss_name, license |-> df.rows[i].license]]

\* The licenses of the lookup rows whose dss_name is the group, in row order.
licenses_of(lookup, group) ==
    LET hits == SelectSeq(lookup, LAMBDA l : l.dss_name = group)
    IN  [i \in DOMAIN hits |-> hits[i].license]

\* .merge(license_lookup, left_on="groups", right_on="dss_name"): an inner
\* merge, one row per pair of a member row and a lookup row of its group.
RECURSIVE merge_license(_, _)
merge_license(df, lookup) ==
    IF df = <<>> THEN <<>>
    ELSE LET r   == Head(df)
             lic == licenses_of(lookup, r.groups)
         IN  [i \in DOMAIN lic |->
                 [login |-> r.login, displayName |-> r.displayName,
                  email |-> r.email, groups |-> r.groups, license |-> lic[i]]]
             \o merge_license(Tail(df), lookup)

UserKey(r) == <<r.login, r.displayName, r.email>>

\* Order of the groupby keys (login, displayName, email).
KeyLess(k1, k2) ==
    \/ LexLess(k1[1], k2[1])
    \/ k1[1] = k2[1] /\ AtomRank(k1[2]) < AtomRank(k2[2])
    \/ k1[1] = k2[1] /\ k1[2] = k2[2] /\ LexLess(k1[3], k2[3])

RECURSIVE sorted_keys(_)
sorted_keys(K) ==
    IF K = {} THEN <<>>
    ELSE LET m == CHOOSE k \in K : \A o \in K \ {k} : KeyLess(k, o)
         IN  <<m>> \o sorted_keys(K \ {m})

\* aad_users: .groupby(by=["login", "displayName", "email"])["groups", "license"]
\* .agg(["unique"]).reset_index(): one row per key, in key order.
aggregate(df, mapping) ==
    LET merged == merge_license(sort_values(df), license_lookup(mapping))
        keys   == sorted_keys({UserKey(merged[i]) : i \in DOMAIN merged})
        of(k)  == SelectSeq(merged, LAMBDA r : UserKey(r) = k)
    IN  [i \in DOMAIN keys |->
            [login       |-> keys[i][1],
             displayName |-> keys[i][2],
             email       |-> keys[i][3],
             groups      |-> unique([j \in DOMAIN of(keys[i]) |-> of(keys[i])[j].groups]),
             license     |-> unique([j \in DOMAIN of(keys[i]) |-> of(keys[i])[j].license])]]

(***************************************************************************)
(* The DSS client                                                          *)
(***************************************************************************)
has_user(ros, login) == \E u \in ros : u.login = login

get_user(ros, login) == CHOOSE u \in ros : u.login = login

\* client.list_users() as the frame dss_users, in DSS's order (here by login).
list_users(ros) ==
    LET logins == SortedStrings({u.login : u \in ros})
    IN  [i \in DOMAIN logins |-> get_user(ros, logins[i])]

\* [group["name"] for group in client.list_groups()]
dss_groups == <<"contractors", "eng", "ops">>

(***************************************************************************)
(* Phase 4: the comparison table and the decision for one row              *)
(***************************************************************************)
\* aad_users.merge(dss_users, how="outer", on=["login", "displayName", "email"],
\* suffixes=("_aad", "_dss"), indicator=True), with the NaN licenses replaced
\* by empty lists: the rows of aad_users in their order, each with the account
\* of the same key when there is one, then the accounts no row of aad_users
\* matched.  The column _merge is the field merge.
user_comparison_of(aad_users, dss_users) ==
    LET match(a) == SelectSeq(dss_users, LAMBDA u : UserKey(u) = UserKey(a))
        left(a)  ==
            IF match(a) = <<>>
            THEN <<[login |-> a.login, displayName |-> a.displayName,
                    email |-> a.email, groups_aad |-> a.groups,
                    license |-> a.license, groups_dss |-> NaN,
                    sourceType |-> NaN, userProfile |-> NaN,
                    merge |-> "left_only"]>>
            ELSE [j \in DOMAIN match(a) |->
                   [login |-> a.login, displayName |-> a.displayName,
                    email |-> a.email, groups_aad |-> a.groups,
                    license |-> a.license, groups_dss |-> match(a)[j].groups,
                    sourceType |-> match(a)[j].sourceType,
                    userProfile |-> match(a)[j].userProfile,
                    merge |-> "both"]]
        unmatched == SelectSeq(dss_users,
                        LAMBDA u : \A i \in DOMAIN aad_users :
                                       UserKey(aad_users[i]) # UserKey(u))
        right == [j \in DOMAIN unmatched |->
                   [login |-> unmatched[j].login,
                    displayName |-> unmatched[j].displayName,
                    email |-> unmatched[j].email, groups_aad |-> NaN,
                    license |-> <<>>, groups_dss |-> unmatched[j].groups,
                    sourceType |-> unmatched[j].sourceType,
                    userProfile |-> unmatched[j].userProfile,
                    merge |-> "right_only"]]
        RECURSIVE lefts(_)
        lefts(i) == IF i > Len(aad_users) THEN <<>>
                    ELSE left(aad_users[i]) \o lefts(i + 1)
    IN  lefts(1) \o right

\* Mutant: every account counts as one the macro owns.
is_local_no_auth_any(dss_user_type) == TRUE

\* dss_user_type == "LOCAL_NO_AUTH"
is_local_no_auth(dss_user_type) == dss_user_type = "LOCAL_NO_AUTH"

\* The lists of a set in every order: list(set(...)) has the order of a Python
\* set of strings, which differs from one process to the next.
RECURSIVE orderings(_)
orderings(S) ==
    IF S = {} THEN {<<>>}
    ELSE UNION {{<<x>> \o t : t \in orderings(S \ {x})} : x \in S}

\* Mutant: every group of the account is kept, mapped or not.
users_groups_unfiltered(row, local) ==
    IF row.merge = "both" THEN orderings(ToSet(row.groups_dss))
    ELSE {<<>>}

\* users_local_groups = list(set(row["groups_dss"]) & set(local_groups)), in
\* each order the list can have; <<>> alone for the rows that never reach it.
users_local_groups(row, local) ==
    IF row.merge = "both" THEN orderings(ToSet(row.groups_dss) \cap local)
    ELSE {<<>>}

\* Mutant: the groups of the directory alone.
all_groups_aad_only(row, kept) == row.groups_aad

\* all_groups = list(row["groups_aad"]); all_groups.extend(users_local_groups)
all_groups(row, kept) == row.groups_aad \o kept

\* The condition of the last if of the loop.
needs_update(groups, row, user_license) ==
    list_diff(groups, row.groups_dss) # {} \/ user_license # row.userProfile

Decision(kind, row, groups, user_license, reason) ==
    [kind |-> kind, user |-> row.login, display_name |-> row.displayName,
     email |-> row.email, groups |-> groups, license |-> user_license,
     reason |-> reason]

\* The body of the loop over user_comparison up to the call it ends in: which
\* of user_create, user_delete, add_log(WARNING), user_update it reaches, with
\* which arguments.  kept is the value of users_local_groups.
decide(row, kept) ==
    LET user_license == get_license(row.license) IN
    IF row.merge = "left_only"
    THEN Decision("Create", row, row.groups_aad, user_license, "")
    ELSE IF row.merge = "right_only"
    THEN IF is_local_no_auth(row.sourceType)
         THEN Decision("Delete", row, <<>>, user_license, "Not found in AAD.")
         ELSE Decision("NoOp", row, <<>>, user_license, "")
    ELSE IF ~is_local_no_auth(row.sourceType)
    THEN Decision("Warn", row, <<>>, user_license, row.sourceType)
    ELSE IF user_license = "NONE"
    THEN Decision("Delete", row, <<>>, user_license, "No license.")
    ELSE IF needs_update(all_groups(row, kept), row, user_license)
    THEN Decision("Update", row, all_groups(row, kept), user_license, "")
    ELSE Decision("NoOp", row, <<>>, user_license, "")

(***************************************************************************)
(* User creation, drop and alteration within DSS                           *)
(***************************************************************************)
\* What a call did: the accounts after it, the log rows it added, the
\* mutating client calls it made, and the message of the exception it raised.
Effect(ros, log, calls, raised) ==
    [roster |-> ros, log |-> log, calls |-> calls, raised |-> raised]

Call(op, login) == [op |-> op, login |-> login]

\* Mutant: the license is not looked at before creating.
user_create_unchecked(ros, simulate, d) ==
    IF simulate
    THEN Effect(ros, <<LogEntry("INFO", "will be created", d.user, d.groups)>>,
                <<>>, None)
    ELSE Effect(ros \cup {[login |-> d.user, displayName |-> d.display_name,
                           email |-> d.email, groups |-> d.groups,
                           sourceType |-> "LOCAL_NO_AUTH",
                           userProfile |-> d.license]},
                <<LogEntry("INFO", "has been created", d.user, d.groups)>>,
                <<Call("create_user", d.user), Call("set_definition", d.user)>>,
                None)

\* user_create.  client.create_user refuses a login that is taken: it raises.
user_create(ros, simulate, d) ==
    IF d.license = "NONE"
    THEN Effect(ros, <<LogEntry("INFO", "will not be created", d.user, "")>>,
                <<>>, None)
    ELSE IF simulate
    THEN Effect(ros, <<LogEntry("INFO", "will be created", d.user, d.groups)>>,
                <<>>, None)
    ELSE IF has_user(ros, d.user)
    THEN Effect(ros, <<>>, <<Call("create_user", d.user)>>, "User already exists")
    ELSE Effect(ros \cup {[login |-> d.user, displayName |-> d.display_name,
                           email |-> d.email, groups |-> d.groups,
                           sourceType |-> "LOCAL_NO_AUTH",
                           userProfile |-> d.license]},
                <<LogEntry("INFO", "has been created", d.user, d.groups)>>,
                <<Call("create_user", d.user), Call("set_definition", d.user)>>,
                None)

\* user_update
user_update(ros, simulate, d) ==
    IF simulate
    THEN Effect(ros, <<LogEntry("INFO", "will be modified", d.user,
                                <<d.groups, d.license>>)>>, <<>>, None)
    ELSE IF ~has_user(ros, d.user)
    THEN Effect(ros, <<>>, <<>>, "User does not exist")
    ELSE Effect((ros \ {get_user(ros, d.user)}) \cup
                    {[get_user(ros, d.user) EXCEPT !.groups = d.groups,
                                                   !.userProfile = d.license]},
                <<LogEntry("INFO", "have been modified", d.user,
                           <<d.groups, d.license>>)>>,
                <<Call("set_definition", d.user)>>, None)

\* user_delete
user_delete(ros, simulate, d) ==
    IF simulate
    THEN Effect(ros, <<LogEntry("INFO", "will be deleted", d.user, d.reason)>>,
                <<>>, None)
    ELSE IF ~has_user(ros, d.user)
    THEN Effect(ros, <<>>, <<>>, "User does not exist")
    ELSE Effect(ros \ {get_user(ros, d.user)},
                <<LogEntry("INFO", "has been deleted", d.user, d.reason)>>,
                <<Call("delete", d.user)>>, None)

\* The call the loop body ends in, for the decision d.
apply_decision(ros, simulate, d) ==
    CASE d.kind = "Create" -> user_create(ros, simulate, d)
      [] d.kind = "Update" -> user_update(ros, simulate, d)
      [] d.kind = "Delete" -> user_delete(ros, simulate, d)
      [] d.kind = "Warn"   ->
           Effect(ros, <<LogEntry("WARNING", "LOCAL_NO_AUTH was expected",
                                  d.user, d.reason)>>, <<>>, None)
      [] OTHER -> Effect(ros, <<>>, <<>>, None)

(***************************************************************************)
(* The inputs the model draws from                                         *)
(***************************************************************************)
Ann == [displayName |-> "Ann", email |-> <<"a", "@", "x">>]
Bob == [displayName |-> "Bob", email |-> <<"b", "@", "x">>]

AadName(group) == CASE group = "eng"   -> "Eng-AAD"
                    [] group = "ops"   -> "Ops-AAD"
                    [] OTHER           -> "Ghost-AAD"

MappingRow(group, license) ==
    [dss_name |-> group, aad_name |-> AadName(group), license |-> license]

\* Mappings that pass validation: one or two rows.
ValidMappings ==
    {<<MappingRow("eng", l)>> : l \in {"READER", "NONE"}} \cup
    {<<MappingRow("eng", l1), MappingRow("ops", l2)>> :
        l1 \in {"READER", "NONE"}, l2 \in {"DATA_SCIENTIST", "NONE"}}

\* The datasets: the valid ones, one with an unknown license, one naming a
\* group DSS does not have, one with its columns in the wrong order.
GroupsDatasets ==
    {[columns |-> mandatory_columns, rows |-> m] :
        m \in ValidMappings \cup
              {<<MappingRow("eng", "ADMIN")>>,
               <<MappingRow("eng", "READER"), MappingRow("ghost", "READER")>>}}
    \cup {[columns |-> <<"dss_name", "license", "aad_name">>,
           rows |-> <<MappingRow("eng", "READER")>>]}

GraphGroup(status, members) == [status |-> status, members |-> members]

Graph(auth_ok, eng, ops) ==
    [auth_ok |-> auth_ok,
     groups  |-> [n \in {"Eng-AAD", "Ops-AAD", "Ghost-AAD"} |->
                    CASE n = "Eng-AAD" -> eng
                      [] n = "Ops-AAD" -> ops
                      [] OTHER -> GraphGroup("notfound", {})]]

\* Azure AD answering every query: the members of the two groups.
AnsweringGraphs ==
    {Graph(TRUE, GraphGroup("ok", e), GraphGroup("ok", o)) :
        e \in {{}, {Ann}, {Ann, Bob}}, o \in {{}, {Ann}}}

\* Azure AD with the lookup or the member query of the first group failing,
\* and the second group found or not.
FailingGraphs ==
    {Graph(TRUE, GraphGroup(s, {Ann, Bob}), o) :
        s \in {"notfound", "lookup_error", "members_error"},
        o \in {GraphGroup("notfound", {}), GraphGroup("ok", {Ann})}}

Account(login, name, email, groups, type, profile) ==
    [login |-> login, displayName |-> name, email |-> email, groups |-> groups,
     sourceType |-> type, userProfile |-> profile]

LoginA == <<"a", "_", "x">>
LoginB == <<"b", "_", "x">>

\* The accounts DSS can hold under Ann's login: one the macro owns with the
\* directory's name and email, any groups and one of two profiles; one the
\* macro owns whose name or email differs from the directory's; one of
\* another type.
AccountsA ==
    {Account(LoginA, "Ann", Ann.email, SortedAtoms(g), "LOCAL_NO_AUTH", p) :
        g \in SUBSET {"eng", "ops", "contractors"},
        p \in {"READER", "DATA_SCIENTIST"}}
    \cup {Account(LoginA, "Ann Smith", Ann.email, <<"eng">>, t, "READER") :
            t \in {"LOCAL_NO_AUTH", "LOCAL"}}
    \cup {Account(LoginA, "Ann", <<"a", "@", "y">>, <<"eng">>, "LOCAL_NO_AUTH", "READER"),
          Account(LoginA, "Ann", Ann.email, <<"eng">>, "LOCAL", "READER")}

AccountsB ==
    {Account(LoginB, "Bob", Bob.email, <<"eng">>, t, "READER") :
        t \in {"LOCAL_NO_AUTH", "LDAP"}}

Rosters == {a \cup b : a \in {{}} \cup {{x} : x \in AccountsA},
                       b \in {{}} \cup {{x} : x \in AccountsB}}

\* The configurations an instance is constructed with.
Configs ==
    [flag_simulate : BOOLEAN,
     groups_dataset : {"", "groups"},
     auth_method : {"auth_app_token", "auth_device_code"},
     provided : {{"graph_tenant_id", "graph_app_id", "graph_app_secret"},
                 {"graph_tenant_id", "graph_app_id"}}]

Input(df, g, ros) == [groups_df |-> df, graph |-> g, roster |-> ros]

ValidDatasets == {[columns |-> mandatory_columns, rows |-> m] : m \in ValidMappings}

\* The inputs: every valid mapping with every answering directory and every
\* roster; the failing directories and the refused authentication with a few
\* rosters; the datasets that fail validation.
Inputs ==
    {Input(df, g, ros) : df \in ValidDatasets, g \in AnsweringGraphs, ros \in Rosters}
    \cup {Input(df, g, ros) : df \in ValidDatasets, g \in FailingGraphs,
                              ros \in {{}, {Account(LoginA, "Ann", Ann.email, <<"eng">>,
                                                    "LOCAL_NO_AUTH", "READER")}}}
    \cup {Input(df, Graph(a, GraphGroup("ok", {Ann}), GraphGroup("ok", {})), ros) :
            df \in GroupsDatasets, a \in BOOLEAN,
            ros \in {{}, {Account(LoginA, "Ann", Ann.email, <<"eng">>,
                                  "LOCAL_NO_AUTH", "READER")}}}

NoConfig == [flag_simulate |-> FALSE, auth_method |-> ""]

NoRun == [executed |-> FALSE, simulate |-> FALSE, auth_method |-> "",
          decisions |-> <<>>]

NoResult == [kind |-> "none", rows |-> <<>>]

(***************************************************************************)
(* The state machine                                                       *)
(***************************************************************************)
Init ==
    /\ \E i \in Inputs : /\ groups_df = i.groups_df
                         /\ graph = i.graph
                         /\ roster = i.roster
                         /\ roster_start = i.roster
    /\ config = NoConfig
    /\ pc = "idle"
    /\ log_df = <<>>
    /\ local_groups = {}
    /\ group_idx = 0
    /\ group_members_df = <<>>
    /\ user_comparison = <<>>
    /\ row_idx = 0
    /\ decisions = <<>>
    /\ api_calls = <<>>
    /\ fatal = None
    /\ result = NoResult
    /\ run_no = 0
    /\ prev_run = NoRun
    /\ license_list = <<>>
    /\ license_result = None

\* Mutant: the except clause logs the message as a WARNING.
raise_in_run_as_warning(log, message) ==
    /\ log_df' = add_log(log, LogEntry("WARNING", message, "", ""))
    /\ fatal' = message
    /\ pc' = "finally"

\* The except clause of run(): add_log(str(e), "ERROR"); the finally clause
\* comes next.
raise_in_run(log, message) ==
    /\ log_df' = add_log(log, LogEntry("ERROR", message, "", ""))
    /\ fatal' = message
    /\ pc' = "finally"

\* MyRunnable.__init__ on a new instance, whose run() the caller calls next.
\* The constructor raises when no groups dataset is selected or a required
\* credential is missing: the caller gets the exception and no instance.
MyRunnable_init ==
    /\ pc \in {"idle", "returned", "raised"}
    /\ run_no < MaxRuns
    /\ run_no' = run_no + 1
    /\ prev_run' = [executed |-> pc = "returned",
                    simulate |-> config.flag_simulate,
                    auth_method |-> config.auth_method,
                    decisions |-> decisions]
    /\ roster_start' = roster
    /\ log_df' = <<>>
    /\ local_groups' = {}
    /\ group_idx' = 0
    /\ group_members_df' = <<>>
    /\ user_comparison' = <<>>
    /\ row_idx' = 0
    /\ decisions' = <<>>
    /\ api_calls' = <<>>
    /\ \E cfg \in Configs :
         IF cfg.groups_dataset = ""
         THEN /\ pc' = "raised"
              /\ fatal' = "No groups dataset has been selected."
              /\ result' = [kind |-> "exception", rows |-> <<>>]
              /\ config' = NoConfig
         ELSE IF missing_credentials(cfg.auth_method, cfg.provided) # {}
         THEN /\ pc' = "raised"
              /\ fatal' = "Please specify these credentials"
              /\ result' = [kind |-> "exception", rows |-> <<>>]
              /\ config' = NoConfig
         ELSE /\ pc' = "phase1"
              /\ fatal' = None
              /\ result' = NoResult
              /\ config' = [flag_simulate |-> cfg.flag_simulate,
                            auth_method |-> cfg.auth_method]
    /\ UNCHANGED <<groups_df, graph, roster, license_list, license_result>>

\* run(), phase 1: validate_groups_df, list_users, list_groups, the check for
\* groups missing from DSS.  (The snapshot dss_users is taken here; nothing
\* changes the accounts before phase 4 reads it.)
run_phase1 ==
    /\ pc = "phase1"
    /\ LET groups_from_input ==
               [i \in DOMAIN groups_df.rows |-> groups_df.rows[i].dss_name]
       IN  IF validate_groups_df(groups_df) # None
           THEN /\ raise_in_run(log_df, validate_groups_df(groups_df))
                /\ UNCHANGED local_groups
           ELSE IF list_diff(groups_from_input, dss_groups) # {}
           THEN /\ raise_in_run(log_df, "Groups are missing from DSS")
                /\ UNCHANGED local_groups
           ELSE /\ local_groups' = list_diff(dss_groups, groups_from_input)
                /\ pc' = "auth"
                /\ UNCHANGED <<log_df, fatal>>
    /\ UNCHANGED <<groups_df, graph, roster, roster_start, config, group_idx, group_members_df,
                   user_comparison, row_idx, decisions, api_calls, result,
                   run_no, prev_run, license_list, license_result>>

\* run(), phase 2: set_session_headers.  It raises for an authentication
\* method it does not know and when Azure AD refuses the token.
set_session_headers ==
    /\ pc = "auth"
    /\ IF config.auth_method \notin {"auth_app_token", "auth_app_cert", "auth_user_pwd"}
       THEN raise_in_run(log_df, "Invalid authentication method") /\ UNCHANGED group_idx
       ELSE IF ~graph.auth_ok
       THEN raise_in_run(log_df, "AdalError") /\ UNCHANGED group_idx
       ELSE /\ pc' = IF groups_df.rows = <<>> THEN "phase3" ELSE "phase2"
            /\ group_idx' = 1
            /\ UNCHANGED <<log_df, fatal>>
    /\ UNCHANGED <<groups_df, graph, roster, roster_start, config, local_groups, group_members_df,
                   user_comparison, row_idx, decisions, api_calls, result,
                   run_no, prev_run, license_list, license_result>>

\* run(), phase 2: one pass of the loop over the rows of groups_df:
\* query_group, then query_members unless there is no group id, then
\* group_members_df.append, which leaves the frame as it is for None.
run_phase2 ==
    /\ pc = "phase2"
    /\ LET row == groups_df.rows[group_idx]
           g   == query_group(row.aad_name)
           m   == query_members(g.group_id, row.dss_name)
       IN  IF g.group_id = None
           THEN /\ log_df' = log_df \o g.log
                /\ UNCHANGED group_members_df
           ELSE /\ log_df' = log_df \o m.log
                /\ group_members_df' =
                     IF m.raised THEN group_members_df
                     ELSE group_members_df \o m.members
    /\ group_idx' = group_idx + 1
    /\ pc' = IF group_idx = Len(groups_df.rows) THEN "phase3" ELSE "phase2"
    /\ UNCHANGED <<groups_df, graph, roster, roster_start, config, local_groups, user_comparison,
                   row_idx, decisions, api_calls, fatal, result, run_no, prev_run,
                   license_list, license_result>>

\* run(), phase 3 and the head of phase 4: the aggregation and the outer
\* merge.  sort_values raises KeyError('login') on the frame no group added a
\* row to: it has no columns.
run_phase3 ==
    /\ pc = "phase3"
    /\ IF group_members_df = <<>>
       THEN /\ raise_in_run(log_df, "'login'")
            /\ UNCHANGED <<user_comparison, row_idx>>
       ELSE /\ user_comparison' =
                 user_comparison_of(aggregate(group_members_df, groups_df),
                                    list_users(roster))
            /\ row_idx' = 1
            /\ pc' = "phase4"
            /\ UNCHANGED <<log_df, fatal>>
    /\ UNCHANGED <<groups_df, graph, roster, roster_start, config, local_groups, group_idx,
                   group_members_df, decisions, api_calls, result, run_no,
                   prev_run, license_list, license_result>>

\* run(), phase 4: one pass of the loop over user_comparison.  An exception
\* of the DSS client ends the loop in the except clause.
run_phase4 ==
    /\ pc = "phase4"
    /\ LET row == user_comparison[row_idx] IN
       \E kept \in users_local_groups(row, local_groups) :
         LET d == decide(row, kept)
             e == apply_decision(roster, config.flag_simulate, d)
         IN  /\ decisions' = Append(decisions,
                     [kind |-> d.kind, user |-> d.user, groups |-> d.groups,
                      license |-> d.license, reason |-> d.reason,
                      logged |-> e.log, calls |-> e.calls, raised |-> e.raised])
             /\ roster' = e.roster
             /\ api_calls' = api_calls \o e.calls
             /\ IF e.raised # None
                THEN /\ raise_in_run(log_df \o e.log, e.raised)
                     /\ UNCHANGED row_idx
                ELSE /\ log_df' = log_df \o e.log
                     /\ row_idx' = row_idx + 1
                     /\ pc' = IF row_idx = Len(user_comparison)
                              THEN "finally" ELSE "phase4"
                     /\ UNCHANGED fatal
    /\ UNCHANGED <<groups_df, graph, roster_start, config, local_groups, group_idx,
                   group_members_df, user_comparison, result, run_no, prev_run,
                   license_list, license_result>>

\* run(), the finally clause: save_log when config names a log dataset, then
\* return create_resulttable().  config.get("log_dataset") is drawn here, where
\* it is read; when writing the dataset raises, the exception reaches the
\* caller and there is no table.
run_finally ==
    /\ pc = "finally"
    /\ \E log_dataset \in {"", "log", "unwritable"} :
         result' = IF log_dataset = "unwritable"
                   THEN [kind |-> "exception", rows |-> <<>>]
                   ELSE [kind |-> "table", rows |-> log_df]
    /\ pc' = "returned"
    /\ UNCHANGED <<groups_df, graph, roster, roster_start, config, log_df, local_groups,
                   group_idx, group_members_df, user_comparison, row_idx,
                   decisions, api_calls, fatal, run_no, prev_run, license_list,
                   license_result>>

Next ==
    \/ MyRunnable_init
    \/ run_phase1
    \/ set_session_headers
    \/ run_phase2
    \/ run_phase3
    \/ run_phase4
    \/ run_finally

Spec == Init /\ [][Next]_vars

(***************************************************************************)
(* The license resolver on its own: get_license applied to any list        *)
(***************************************************************************)
LicenseLabels == ToSet(possible_licenses) \cup {"ADMIN"}

LicenseLists == UNION {[1..n -> LicenseLabels] : n \in 0..MaxLicenseList}

InitLicense ==
    /\ license_list \in LicenseLists
    /\ license_result = None
    /\ groups_df = [columns |-> mandatory_columns, rows |-> <<>>]
    /\ graph = Graph(TRUE, GraphGroup("ok", {}), GraphGroup("ok", {}))
    /\ roster = {}
    /\ roster_start = {}
    /\ config = NoConfig
    /\ pc = "license"
    /\ log_df = <<>>
    /\ local_groups = {}
    /\ group_idx = 0
    /\ group_members_df = <<>>
    /\ user_comparison = <<>>
    /\ row_idx = 0
    /\ decisions = <<>>
    /\ api_calls = <<>>
    /\ fatal = None
    /\ result = NoResult
    /\ run_no = 0
    /\ prev_run = NoRun

\* A call of get_license(license_list).
call_get_license ==
    /\ pc = "license"
    /\ license_result = None
    /\ license_result' = get_license(license_list)
    /\ UNCHANGED <<groups_df, graph, roster, roster_start, config, pc, log_df,
                   local_groups, group_idx, group_members_df, user_comparison,
                   row_idx, decisions, api_calls, fatal, result, run_no, prev_run,
                   license_list>>

NextLicense == call_get_license

SpecLicense == InitLicense /\ [][NextLicense]_vars

(***************************************************************************)
(* Vocabulary of the properties                                            *)
(***************************************************************************)
\* Row i of user_comparison has been processed: decisions[i] is what the loop
\* decided for it.
Processed == DOMAIN decisions

Owned(row) == row.sourceType = "LOCAL_NO_AUTH"

\* The decision reached the local system or, with simulate, the log: a Create
\* is one that user_create did not suppress.
IsCreate(h) == /\ h.kind = "Create"
               /\ \/ h.calls # <<>>
                  \/ \E j \in DOMAIN h.logged :
                        h.logged[j].message \in {"will be created", "has been created"}
IsUpdate(h) == h.kind = "Update"
IsDelete(h) == h.kind = "Delete"
IsMutation(h) == IsCreate(h) \/ IsUpdate(h) \/ IsDelete(h)

\* The Create, Update and Delete decisions of a run, in order, as <<kind, user>>.
Mutations(ds) ==
    LET m == SelectSeq(ds, IsMutation)
    IN  [i \in DOMAIN m |-> <<m[i].kind, m[i].user>>]

\* The potency order the properties speak of, most potent first.
PotencyOrder == <<"DATA_SCIENTIST", "DATA_ANALYST", "READER", "EXPLORER", "NONE">>
Potency(l) == CHOOSE i \in DOMAIN PotencyOrder : PotencyOrder[i] = l

\* The most potent license of a set of labels, NONE when it has none that is
\* recognised.
MostPotent(S) ==
    LET known == S \cap ToSet(PotencyOrder)
    IN  IF known = {} THEN "NONE"
        ELSE CHOOSE l \in known : \A o \in known : Potency(l) <= Potency(o)

\* The mapping rows whose directory group answered with members.
AnsweredRows ==
    {j \in DOMAIN groups_df.rows :
        /\ graph.groups[groups_df.rows[j].aad_name].status = "ok"
        /\ graph.groups[groups_df.rows[j].aad_name].members # {}}

\* The email with "@" replaced by "_".
LoginOf(email) == [k \in DOMAIN email |-> IF email[k] = "@" THEN "_" ELSE email[k]]

\* The mapping rows of the groups the directory assigns to the login.
RowsOfLogin(login) ==
    {j \in AnsweredRows :
        \E m \in graph.groups[groups_df.rows[j].aad_name].members :
            LoginOf(m.email) = login}

\* The groups, and the licenses, the directory assigns to the login.
DirectoryGroups(login)   == {groups_df.rows[j].dss_name : j \in RowsOfLogin(login)}
DirectoryLicenses(login) == {groups_df.rows[j].license : j \in RowsOfLogin(login)}

\* The local-only groups: the groups of the local system absent from the mapping.
LocalOnlyGroups ==
    ToSet(dss_groups) \ {groups_df.rows[j].dss_name : j \in DOMAIN groups_df.rows}

\* The effective groups of a both-side row.
EffectiveGroups(row) ==
    DirectoryGroups(row.login) \cup (ToSet(row.groups_dss) \cap LocalOnlyGroups)

(***************************************************************************)
(* C1                                                                      *)
(***************************************************************************)
\* C1: for every processed both-side row whose account is LOCAL_NO_AUTH and
\* whose resolved license is not NONE, the decision is Update if and only if
\* the effective group set is not equal, as a set, to the account's groups or
\* the resolved license differs from the account's profile.
C1_UpdateIffSetsOrLicenseDiffer ==
    \A i \in Processed :
        LET row == user_comparison[i]
            lic == MostPotent(DirectoryLicenses(row.login))
        IN  (row.merge = "both" /\ Owned(row) /\ lic # "NONE")
            => (IsUpdate(decisions[i])
                <=> (\/ EffectiveGroups(row) # ToSet(row.groups_dss)
                     \/ lic # row.userProfile))

(***************************************************************************)
(* C2                                                                      *)
(***************************************************************************)
\* C2: in a run without simulate that follows a run without simulate, with
\* the same configuration, mapping and directory, no row gets a Create, an
\* Update or a Delete.
C2_SecondRunDecidesNothing ==
    (prev_run.executed /\ ~prev_run.simulate /\ ~config.flag_simulate
        /\ prev_run.auth_method = config.auth_method
        /\ pc \in {"phase4", "finally", "returned"})
    => Mutations(decisions) = <<>>

(***************************************************************************)
(* C3                                                                      *)
(***************************************************************************)
\* C3: a local-only account that is not LOCAL_NO_AUTH gets no decision, no
\* log entry and no client call; a both-side account that is not
\* LOCAL_NO_AUTH gets one WARNING log entry and nothing else, and the loop
\* goes on to the next row; neither account is changed or removed.
C3_ForeignAccountsUntouched ==
    \A i \in DOMAIN user_comparison :
        LET row == user_comparison[i] IN
        (row.merge \in {"right_only", "both"} /\ ~Owned(row))
        => /\ \E u \in roster :
                /\ u.login = row.login
                /\ u.sourceType = row.sourceType
                /\ u.groups = row.groups_dss
                /\ u.userProfile = row.userProfile
           /\ \A c \in DOMAIN api_calls :
                api_calls[c].login = row.login
                    => api_calls[c].op \notin {"set_definition", "delete"}
           /\ i \in Processed =>
                /\ decisions[i].calls = <<>>
                /\ decisions[i].raised = None
                /\ ~IsMutation(decisions[i])
                /\ row.merge = "right_only" => decisions[i].logged = <<>>
                /\ row.merge = "both" =>
                     /\ Len(decisions[i].logged) = 1
                     /\ decisions[i].logged[1].type = "WARNING"
                     /\ decisions[i].logged[1].user = row.login
                /\ \/ Len(decisions) > i
                   \/ pc = "phase4" /\ row_idx = i + 1
                   \/ i = Len(user_comparison) /\ fatal = None

\* A both-side account of another type was warned about and the row after it
\* was processed, a local-only account of another type among them.
C3_Witness ==
    \E i, j \in Processed :
        /\ i < j
        /\ user_comparison[i].merge = "both" /\ ~Owned(user_comparison[i])
        /\ user_comparison[j].merge = "right_only" /\ ~Owned(user_comparison[j])
        /\ ~config.flag_simulate

(***************************************************************************)
(* C4                                                                      *)
(***************************************************************************)
\* C4: the group list of every Update holds the groups the directory assigns
\* to the user and the local-only groups the account holds, and no other.
C4_UpdateKeepsLocalOnlyGroups ==
    \A i \in Processed :
        IsUpdate(decisions[i])
        => /\ user_comparison[i].merge = "both"
           /\ ToSet(decisions[i].groups) =
                DirectoryGroups(user_comparison[i].login)
                \cup (ToSet(user_comparison[i].groups_dss) \cap LocalOnlyGroups)
           /\ ~config.flag_simulate =>
                \E u \in roster : /\ u.login = decisions[i].user
                                  /\ u.groups = decisions[i].groups

\* An Update of an account that holds a local-only group and lacks a group of
\* the directory.
C4_Witness ==
    \E i \in Processed :
        /\ IsUpdate(decisions[i])
        /\ ToSet(user_comparison[i].groups_dss) \cap LocalOnlyGroups # {}
        /\ DirectoryGroups(user_comparison[i].login)
              \ ToSet(user_comparison[i].groups_dss) # {}
        /\ ~config.flag_simulate

(***************************************************************************)
(* C5                                                                      *)
(***************************************************************************)
\* The rows of the log that tell of a Create, an Update or a Delete to come.
SimulatedEntries ==
    SelectSeq(log_df, LAMBDA e : e.message \in
                 {"will be created", "will be modified", "will be deleted"})

\* C5: with simulate, no mutating client call is made and the accounts stay as
\* they were, and the log gets one entry per Create, Update and Delete decided,
\* for the same user and in the same order; and the run without simulate that
\* follows on the same inputs decides the same Creates, Updates and Deletes
\* for the same users in the same order.
C5_SimulateMatchesRun ==
    /\ (config.flag_simulate /\ pc \in {"phase4", "finally", "returned"})
       => /\ api_calls = <<>>
          /\ roster = roster_start
          /\ [i \in DOMAIN SimulatedEntries |-> SimulatedEntries[i].user]
               = [i \in DOMAIN Mutations(decisions) |-> Mutations(decisions)[i][2]]
    /\ (pc = "returned" /\ ~config.flag_simulate
            /\ prev_run.executed /\ prev_run.simulate
            /\ prev_run.auth_method = config.auth_method)
       => Mutations(decisions) = Mutations(prev_run.decisions)

(***************************************************************************)
(* C6                                                                      *)
(***************************************************************************)
\* C6: for every processed directory-only row, when every group of the user
\* maps to NONE no client call is made, no account appears under the login and
\* the one log entry is the INFO that the user will not be created; otherwise the decision is a Create whose user
\* identifier is the email with "@" replaced by "_", whose groups are the
\* user's directory groups and whose license is the most potent of their
\* licenses.
C6_CreateSuppression ==
    \A i \in Processed :
        LET row == user_comparison[i]
            d   == decisions[i]
            lic == DirectoryLicenses(LoginOf(row.email))
        IN  row.merge = "left_only"
            => IF lic \subseteq {"NONE"}
               THEN /\ ~IsCreate(d)
                    /\ d.calls = <<>>
                    /\ Len(d.logged) = 1
                    /\ d.logged[1].type = "INFO"
                    /\ d.logged[1].message = "will not be created"
                    /\ \A u \in roster : u.login = d.user => u \in roster_start
               ELSE /\ IsCreate(d)
                    /\ d.user = LoginOf(row.email)
                    /\ "@" \notin ToSet(d.user)
                    /\ ToSet(d.groups) = DirectoryGroups(LoginOf(row.email))
                    /\ d.license = MostPotent(lic)
                    /\ (~config.flag_simulate /\ d.raised = None)
                       => /\ d.calls[1] = Call("create_user", d.user)
                          /\ \E u \in roster : /\ u.login = d.user
                                               /\ u.userProfile = d.license
                                               /\ u.groups = d.groups

\* In one run without simulate, a directory-only user of NONE groups alone was
\* passed over and a directory-only user with a licensed group was created.
C6_Witness ==
    /\ ~config.flag_simulate
    /\ \E i, j \in Processed :
        /\ user_comparison[i].merge = "left_only"
        /\ user_comparison[j].merge = "left_only"
        /\ IsCreate(decisions[i])
        /\ decisions[i].raised = None
        /\ Cardinality(DirectoryLicenses(decisions[i].user)) = 2
        /\ ~IsCreate(decisions[j])

(***************************************************************************)
(* C7                                                                      *)
(***************************************************************************)
\* C7: get_license returns, for a list with a recognised label, the label of
\* the list that comes first in the potency order, and NONE for a list with
\* none (the empty list among them); labels that are not recognised do not
\* change what it returns.
C7_GetLicenseMostPotent ==
    license_result # None
    => LET known == ToSet(license_list) \cap ToSet(PotencyOrder) IN
       /\ license_result \in ToSet(PotencyOrder)
       /\ known = {} => license_result = "NONE"
       /\ known # {} => /\ license_result \in known
                        /\ \A o \in known : Potency(license_result) <= Potency(o)
       /\ license_result = MostPotent(known)

\* get_license returned for a list that holds a label that is not recognised
\* and two that are, the less potent first.
C7_Witness ==
    /\ license_result # None
    /\ Len(license_list) = 3
    /\ "ADMIN" \in ToSet(license_list)
    /\ \E i, j \in DOMAIN license_list :
          /\ i < j
          /\ license_list[i] \in ToSet(PotencyOrder)
          /\ license_list[j] \in ToSet(PotencyOrder)
          /\ Potency(license_list[j]) < Potency(license_list[i])
          /\ license_result = license_list[j]

(***************************************************************************)
(* C8                                                                      *)
(***************************************************************************)
\* Scenario C: the one mapping row (eng, Eng-AAD, READER), the directory
\* group without members, the account a_x of type LOCAL_NO_AUTH with profile
\* READER, and a run that authenticates and returns its table.
ScenarioC ==
    /\ groups_df = [columns |-> mandatory_columns,
                    rows |-> <<MappingRow("eng", "READER")>>]
    /\ graph.auth_ok
    /\ graph.groups["Eng-AAD"] = GraphGroup("ok", {})
    /\ roster_start = {Account(LoginA, "Ann", Ann.email, <<"eng">>,
                               "LOCAL_NO_AUTH", "READER")}
    /\ config.auth_method = "auth_app_token"
    /\ pc = "returned"
    /\ result.kind = "table"

\* C8: the run of scenario C decides a Delete of a_x with the reason
\* "No license.".
C8_ScenarioCDeletesForNoLicense ==
    ScenarioC
    => \E i \in Processed : /\ IsDelete(decisions[i])
                            /\ decisions[i].user = LoginA
                            /\ decisions[i].reason = "No license."

(***************************************************************************)
(* C9                                                                      *)
(***************************************************************************)
\* The mapping rows the phase-2 loop has been through.
QueriedRows == {j \in DOMAIN groups_df.rows : j < group_idx}

\* The log rows about the group of mapping row j: the rows whose message is
\* one of those written about a group and that name it.
GroupLog(j) ==
    SelectSeq(log_df,
              LAMBDA e : /\ e.message \in {"No return value from Graph for group",
                                           "Error calling Graph API for group",
                                           "members cannot be retrieved from AAD"}
                         /\ e.user \in {groups_df.rows[j].aad_name,
                                        groups_df.rows[j].dss_name})

\* C9: a mapped group whose lookup or member query failed or found nothing
\* has one log row, a WARNING, and no member row; the loop goes through every
\* mapping row; and a run that has left phase 2 goes on through the
\* aggregation into the apply phase, with the member rows of the groups that
\* answered.
C9_GroupFailuresIsolated ==
    /\ \A j \in QueriedRows \ AnsweredRows :
          /\ Len(GroupLog(j)) = 1
          /\ GroupLog(j)[1].type = "WARNING"
          /\ \A k \in DOMAIN group_members_df :
                group_members_df[k].groups # groups_df.rows[j].dss_name
    /\ pc \in {"phase3", "phase4", "finally", "returned"} /\ group_idx > 0
          => QueriedRows = DOMAIN groups_df.rows
    /\ (pc \in {"finally", "returned"} /\ group_idx > 0)
          => /\ row_idx > 0
             /\ \A e \in ToSet(log_df) : e.type = "ERROR" => e.message # "'login'"
             /\ {user_comparison[i].login :
                   i \in {k \in DOMAIN user_comparison :
                             user_comparison[k].merge # "right_only"}}
                = UNION {{LoginOf(m.email) :
                            m \in graph.groups[groups_df.rows[j].aad_name].members} :
                         j \in AnsweredRows}

RECURSIVE DecisionLog(_)
DecisionLog(ds) ==
    IF ds = <<>> THEN <<>>
    ELSE DecisionLog(SubSeq(ds, 1, Len(ds) - 1)) \o Last(ds).logged

\* The number of WARNING rows phase 2 has written.
GroupWarnings == Cardinality(QueriedRows \ AnsweredRows)

MappingInvalid ==
    \/ groups_df.columns # <<"dss_name", "aad_name", "license">>
    \/ \E i \in DOMAIN groups_df.rows :
          groups_df.rows[i].license \notin
              {"DATA_SCIENTIST", "DATA_ANALYST", "READER", "EXPLORER", "NONE"}
    \/ \E i \in DOMAIN groups_df.rows :
          groups_df.rows[i].dss_name \notin {"contractors", "eng", "ops"}

\* The run has decided for a row, called the client or changed an account.
RunHasActed ==
    decisions # <<>> \/ api_calls # <<>> \/ roster # roster_start

\* C11: with a mapping table that has wrong columns, an unknown license or a
\* group missing from the local system, the run never gets past phase 1: it
\* ends in the ERROR row with no group queried in Azure AD, no member row, no
\* comparison, no decision, no client call and no account changed.  In every
\* run, a decision, a client call or a changed account is seen only in the
\* apply phase or after it, with the mapping valid, every row of the mapping
\* queried and the comparison built from the aggregate.
C11_ValidationPrecedesMutation ==
    /\ MappingInvalid
          => /\ pc \in {"idle", "phase1", "finally", "returned", "raised"}
             /\ group_idx = 0
             /\ group_members_df = <<>>
             /\ user_comparison = <<>>
             /\ ~RunHasActed
             /\ pc \in {"finally", "returned"}
                   => /\ fatal # None
                      /\ log_df = <<LogEntry("ERROR", fatal, "", "")>>
    /\ RunHasActed
          => /\ ~MappingInvalid
             /\ pc \in {"phase4", "finally", "returned"}
             /\ group_idx = Len(groups_df.rows) + 1
             /\ group_members_df # <<>>
             /\ user_comparison # <<>>
             /\ Len(decisions) \in {row_idx - 1, row_idx}
    /\ pc \in {"phase1", "auth", "phase2", "phase3"} => ~RunHasActed

\* A run over a mapping naming a group the local system lacks has returned,
\* with an account the macro owns in place and Azure AD ready to answer.
C11_Witness ==
    /\ pc = "returned"
    /\ MappingInvalid
    /\ groups_df.columns = <<"dss_name", "aad_name", "license">>
    /\ \A i \in DOMAIN groups_df.rows : groups_df.rows[i].license = "READER"
    /\ graph.auth_ok
    /\ roster # {}
    /\ config.flag_simulate = FALSE

(***************************************************************************)
(* C12                                                                     *)
(***************************************************************************)
\* The logins of the rows of the comparison.
ComparedLogins == {user_comparison[i].login : i \in DOMAIN user_comparison}

\* The logins of the accounts the run started with.
RosterLogins == {u.login : u \in roster_start}

\* C12: once the comparison is built, every login of the directory aggregate
\* and of the local accounts has exactly one row in it, whatever display name
\* and email the two sides record for it; the loop decides at most once for a
\* login, so no login gets a Create and a Delete in one run; and no Create is
\* decided for a login that has an account.
C12_OneDecisionPerLogin ==
    user_comparison # <<>>
    => /\ RosterLogins \subseteq ComparedLogins
       /\ \A i, j \in DOMAIN user_comparison :
             user_comparison[i].login = user_comparison[j].login => i = j
       /\ \A i, j \in DOMAIN decisions :
             decisions[i].user = decisions[j].user => i = j
       /\ \A i \in DOMAIN decisions :
             IsCreate(decisions[i]) => decisions[i].user \notin RosterLogins

(***************************************************************************)
(* C13                                                                     *)
(***************************************************************************)
\* The groups the mapping names.
MappedGroups == {groups_df.rows[j].dss_name : j \in DOMAIN groups_df.rows}

\* No element of the list occurs at two positions.
NoDuplicates(list) == \A i, j \in DOMAIN list : list[i] = list[j] => i = j

\* C13: the group list of every Create and Update decision holds only groups
\* of the local system and holds none twice.  The groups of a Create are
\* groups of the mapping; those of an Update start with the groups the
\* directory assigns, all of the mapping, and end with groups the account
\* held that the mapping does not name; the account after a Create or Update
\* that was carried out has that list.
C13_DecisionGroupsExistOnce ==
    \A i \in DOMAIN decisions :
        LET d == decisions[i] IN
        d.kind \in {"Create", "Update"}
        => /\ ToSet(d.groups) \subseteq ToSet(dss_groups)
           /\ NoDuplicates(d.groups)
           /\ d.kind = "Create" => ToSet(d.groups) \subseteq MappedGroups
           /\ d.kind = "Update"
                 => /\ ToSet(d.groups) \cap MappedGroups
                          = DirectoryGroups(d.user)
                    /\ ToSet(d.groups) \ MappedGroups
                          \subseteq LocalOnlyGroups
                    /\ \A u \in roster_start :
                          u.login = d.user
                          => ToSet(d.groups) \ MappedGroups \subseteq ToSet(u.groups)
           /\ (d.raised = None /\ d.calls # <<>> /\ i = Len(decisions))
                 => \E u \in roster : u.login = d.user /\ u.groups = d.groups

\* An Update was carried out for an account that already held a group the
\* directory assigns and a group outside the mapping: its list has both, the
\* mapped one once.
C13_Witness ==
    \E i \in DOMAIN decisions :
        /\ decisions[i].kind = "Update"
        /\ decisions[i].calls # <<>>
        /\ ToSet(decisions[i].groups) \cap LocalOnlyGroups # {}
        /\ \E u \in roster_start :
              /\ u.login = decisions[i].user
              /\ ToSet(u.groups) \cap DirectoryGroups(u.login) # {}
              /\ ToSet(u.groups) \cap LocalOnlyGroups # {}

====
